---- MODULE Spec2Model ----
(***************************************************************************)
(* Minimal-conflict-set search (docs/benchmark.py, docs/enumeration.py,    *)
(* docs/example.py): the test oracle, the KnowledgeBase cache, the five    *)
(* single-conflict searches and the IMCS enumerator.                       *)
(*                                                                         *)
(* Components are the integers 0..n-1 (benchmark.py builds the universe    *)
(* as list(range(n)); the strings of enumeration.py and example.py sort    *)
(* in the same order as their index).  A search session is one call of     *)
(* one algorithm on one oracle; loops advance one iteration per step and   *)
(* recursive helpers are RECURSIVE operators that thread the oracle        *)
(* (counter, call log, cache) through the recursion in call order.         *)
(***************************************************************************)
EXTENDS Integers, Sequences, FiniteSets, TLC

VARIABLES
    all_mods,           \* the universe handed to the search, a list
    oracle,             \* the TestRunner: what it fails on
    hashOrder,          \* iteration order of Python set objects in this run
    alg,                \* the entry point that was called
    pc,                 \* "idle", "loop", "done", "raised"; "single" in the
                        \* enumerator's call of find_single_conflict_set
    test_count,         \* TestRunner.test_count / real_test_count
    calls,              \* the real oracle calls so far, in order
    cache,              \* KnowledgeBase.cache
    conflict_set,       \* conflict_set (IMCS) / confirmed_culprits (additive)
    test_set,           \* ddmin working set
    candidates,         \* remaining candidates of the running search, a list
    enum_candidates,    \* the enumerator's candidates, a set
    granularity,        \* ddmin granularity
    all_conflict_sets,  \* the enumerator's result sequence
    exit_by,            \* which statement left the loop
    last,               \* the last direct KnowledgeBase.test call
    found,              \* the set a single-conflict search returned
    found_sets,         \* the list of sets the enumerator returned
    culprit        \* what a single-fault helper called directly returned

vars == <<all_mods, oracle, hashOrder, alg, pc, test_count, calls, cache,
          conflict_set, test_set, candidates, enum_candidates, granularity,
          all_conflict_sets,
          exit_by,
          last, found, found_sets, culprit>>

----------------------------------------------------------------------------
(* Bounds of the model *)

\* universes 0..n-1 with n <= MaxN get every monotone oracle that has at
\* most MaxSets minimal failing sets
MaxN == 4
MaxSets == 2
\* universes with n <= SmallN get every oracle, monotone or not, that fails
\* on at most MaxFail subsets
MaxFail == 1
\* largest planted conflict set in the universes of the spec's scenarios
MaxP == 3
\* KnowledgeBase.test called directly: lists of at most MaxLen components
\* out of KBComponents
MaxLen == 2
KBComponents == {0, 1}
\* the single-fault helpers called directly: universes of at most MaxPoolN
\* components
MaxPoolN == 3

\* the largest universe of the runs checked for termination
MaxFairN == 3

(* Program constants *)

\* benchmark.py:242
ADAPTIVE_THRESHOLD == 50
\* example.py:99, the 16 letters a..p
ExampleN == 16
\* benchmark.py:288, the smallest N_VALUES: the universe {0,1,2,3,4}
SmallN == 5
\* enumeration.py:146, the universe mod_000..mod_127
EnumN == 128
\* the smallest universe on which the adaptive hybrid peels a culprit
BigN == ADAPTIVE_THRESHOLD + 1
\* example.py:100, {c, k, p}
ExampleSet == {2, 10, 15}

None == -1

----------------------------------------------------------------------------
(* Python containers *)

Range(s) == {s[i] : i \in DOMAIN s}

Min(a, b) == IF a < b THEN a ELSE b

\* list(range(n))
RangeList(n) == [i \in 1..n |-> i - 1]

\* sorted(xs) for a collection of distinct components
sorted(S) == SelectSeq(RangeList(Len(all_mods)), LAMBDA x : x \in S)

\* list(s) for a set object s: its elements in the iteration order of the run
ListOf(S) == SelectSeq(hashOrder, LAMBDA x : x \in S)

\* lst.remove(x)
Remove(lst, x) == SelectSeq(lst, LAMBDA y : y # x)

\* frozenset(test_set): the membership of any iterable
\* the key keeps the order of the list: tuple(test_set)
frozenset_ordered(lst) == lst

frozenset(lst) == Range(lst)

\* all subsets of U with at most k elements
SubsetsUpTo(U, k) ==
    UNION {{ {f[i] : i \in 1..j} : f \in [1..j -> U] } : j \in 0..k}

Rotate(n, r) == [i \in 1..n |-> ((i - 1 + r) % n)]

Descending(n) == [i \in 1..n |-> n - i]

\* the iteration orders tried for set objects: ascending (what CPython
\* gives a set of small integers), ascending with the upper part wrapped to
\* the front (integers that overflow the hash table), and descending
Orders(n) ==
    IF n = 0 THEN {<<>>}
    ELSE {RangeList(n), Rotate(n, (n + 1) \div 2), Descending(n)}

----------------------------------------------------------------------------
(* The oracle *)

\* TestRunner.run / run_real_test without the counter: fail (TRUE) or good.
\* kind "superset": fails on the supersets of a problematic set.
\* kind "table": any other pure function of membership, given by the
\* subsets it fails on.
Evaluate(S) ==
    IF oracle.kind = "superset"
    THEN \E conflict \in oracle.sets : conflict \subseteq S
    ELSE S \in oracle.sets

\* the oracle object threaded through a search
\* trace is not a field of TestRunner: it collects the invocations of
\* _quickxplain_recursive made while the oracle is threaded through a call
Tester(count, log, kb) ==
    [test_count |-> count, calls |-> log, cache |-> kb, trace |-> <<>>]

EmptyDict == [k \in {} |-> FALSE]

NewOracle == Tester(0, <<>>, EmptyDict)

\* oracle.run(test_set) / oracle.run_real_test(test_set)
OracleRun(t, S) ==
    [res |-> Evaluate(S),
     t   |-> [t EXCEPT !.test_count = @ + 1, !.calls = Append(@, S)]]

\* self.cache[key] = result; return result
CacheStore(key, r) ==
    [res |-> r.res, t |-> [r.t EXCEPT !.cache = (key :> r.res) @@ @]]

\* a hit answered with `return True` instead of the stored value
KnowledgeBaseTest_hit_true(t, lst) ==
    IF frozenset(lst) \in DOMAIN t.cache
    THEN [res |-> TRUE, t |-> t]
    ELSE CacheStore(frozenset(lst), OracleRun(t, Range(lst)))

\* KnowledgeBase.test(test_set), test_set any iterable given as a list;
\* the cache is a dict from frozenset keys to results
KnowledgeBaseTest(t, lst) ==
    IF frozenset(lst) \in DOMAIN t.cache
    THEN [res |-> t.cache[frozenset(lst)], t |-> t]
    ELSE CacheStore(frozenset(lst), OracleRun(t, Range(lst)))

\* test_func(s): knowledge_base.test when through_kb, else the oracle itself
test_func(through_kb, t, S) ==
    IF through_kb THEN KnowledgeBaseTest(t, ListOf(S)) ELSE OracleRun(t, S)

\* the midpoint rounded up: mid = (len(lst) + 1) // 2
FirstHalf_rounded_up(lst) == SubSeq(lst, 1, (Len(lst) + 1) \div 2)

\* lst[:mid] and lst[mid:] with mid = len(lst) // 2
FirstHalf(lst) == SubSeq(lst, 1, Len(lst) \div 2)

SecondHalf(lst) == SubSeq(lst, (Len(lst) \div 2) + 1, Len(lst))

\* the test's outcome ignored: `return c`
ReturnIf_always(r, c) == [ret |-> c, t |-> r.t]

\* `return c if <test> else None`, r the test
ReturnIf(r, c) == [ret |-> IF r.res THEN c ELSE None, t |-> r.t]

\* the locals of a running search, one record for every loop
Frame(t, cs, ts, cand, g, acs, at, why) ==
    [t |-> t, conflict_set |-> cs, test_set |-> ts, candidates |-> cand,
     granularity |-> g, all_conflict_sets |-> acs, pc |-> at, exit_by |-> why]

----------------------------------------------------------------------------
(* Algorithm 1: iterative additive search (benchmark.py).  An operator    *)
(* named ...After... is the rest of the function above it, given the      *)
(* outcome r of the oracle call or of the helper it has just made.         *)

RECURSIVE _find_one_culprit_recursive(_, _, _)

\* the second half searched without the first half in the base set
FindOneAfterFirstHalf_base_kept(r, base_set, search_pool) ==
    IF r.res
    THEN _find_one_culprit_recursive(r.t, base_set, FirstHalf(search_pool))
    ELSE _find_one_culprit_recursive(r.t, base_set, SecondHalf(search_pool))

\* after `oracle.run(base_set.union(first_half))`
FindOneAfterFirstHalf(r, base_set, search_pool) ==
    IF r.res
    THEN _find_one_culprit_recursive(r.t, base_set, FirstHalf(search_pool))
    ELSE _find_one_culprit_recursive(
             r.t, base_set \cup Range(FirstHalf(search_pool)),
             SecondHalf(search_pool))

\* the last component returned untested: `return search_pool[0]`
_find_one_culprit_recursive_untested(t, base_set, search_pool) ==
    IF search_pool = <<>> THEN [ret |-> None, t |-> t]
    ELSE IF Len(search_pool) = 1
    THEN [ret |-> search_pool[1], t |-> t]
    ELSE FindOneAfterFirstHalf(
             OracleRun(t, base_set \cup Range(FirstHalf(search_pool))),
             base_set, search_pool)

\* returns [ret |-> the culprit or None, t |-> the oracle afterwards]
_find_one_culprit_recursive(t, base_set, search_pool) ==
    IF search_pool = <<>> THEN [ret |-> None, t |-> t]
    ELSE IF Len(search_pool) = 1
    THEN ReturnIf(OracleRun(t, base_set \cup Range(search_pool)),
                  search_pool[1])
    ELSE FindOneAfterFirstHalf(
             OracleRun(t, base_set \cup Range(FirstHalf(search_pool))),
             base_set, search_pool)

\* the result of the first call not looked at: no early return
AdditiveAfterCheck_no_return(r, mods) ==
    Frame(r.t, {}, {}, mods, 0, <<>>, "loop", "")

\* after `oracle.run(set(all_mods))`
AdditiveAfterCheck(r, mods) ==
    IF ~r.res
    THEN Frame(r.t, {}, {}, <<>>, 0, <<>>, "done", "precheck")
    ELSE Frame(r.t, {}, {}, mods, 0, <<>>, "loop", "")

\* find_conflicts_additive up to its loop
find_conflicts_additive_enter(t, mods) ==
    AdditiveAfterCheck(OracleRun(t, Range(mods)), mods)

\* after `next_culprit = _find_one_culprit_recursive(...)`
AdditiveAfterSearch(s, r) ==
    IF r.ret # None
    THEN [s EXCEPT !.t = r.t,
                   !.conflict_set = @ \cup {r.ret},
                   !.candidates = Remove(@, r.ret)]
    ELSE [s EXCEPT !.t = r.t, !.pc = "raised", !.exit_by = "none"]

\* after the while condition `oracle.run(confirmed_culprits)`
AdditiveAfterCondition(s, w) ==
    IF w.res
    THEN [s EXCEPT !.t = w.t, !.pc = "done", !.exit_by = "confirmed"]
    ELSE AdditiveAfterSearch(
             s, _find_one_culprit_recursive(w.t, s.conflict_set, s.candidates))

\* one evaluation of the while condition and, if it holds, of the body
find_conflicts_additive_iter(s) ==
    AdditiveAfterCondition(s, OracleRun(s.t, s.conflict_set))

----------------------------------------------------------------------------
(* Algorithm 2: IMCS, the smart additive search.  benchmark.py             *)
(* (find_conflicts_smart_additive), example.py (FindConflictSet) and       *)
(* enumeration.py (find_single_conflict_set) hold the same code; the last  *)
(* takes the test function as a parameter.                                 *)

RECURSIVE _find_next_conflict_element_optimized(_, _, _, _)

\* the good first half not added to the background
FindNextAfterFirstHalf_background_kept(through_kb, r, background, c1, c2) ==
    IF r.res
    THEN IF Cardinality(c1) = 1
         THEN [ret |-> CHOOSE x \in c1 : TRUE, t |-> r.t]
         ELSE _find_next_conflict_element_optimized(
                  through_kb, r.t, background, c1)
    ELSE IF Cardinality(c2) = 1
         THEN ReturnIf(test_func(through_kb, r.t, background \cup c2),
                       CHOOSE d \in c2 : TRUE)
         ELSE _find_next_conflict_element_optimized(
                  through_kb, r.t, background, c2)

\* without the shortcut for a failing first half of one element
FindNextAfterFirstHalf_no_shortcut(through_kb, r, background, c1, c2) ==
    IF r.res
    THEN _find_next_conflict_element_optimized(
             through_kb, r.t, background, c1)
    ELSE IF Cardinality(c2) = 1
         THEN ReturnIf(test_func(through_kb, r.t, (background \cup c1) \cup c2),
                       CHOOSE d \in c2 : TRUE)
         ELSE _find_next_conflict_element_optimized(
                  through_kb, r.t, background \cup c1, c2)

\* after `test_func(background.union(c1))`
FindNextAfterFirstHalf(through_kb, r, background, c1, c2) ==
    IF r.res
    THEN IF Cardinality(c1) = 1
         THEN [ret |-> CHOOSE x \in c1 : TRUE, t |-> r.t]
         ELSE _find_next_conflict_element_optimized(
                  through_kb, r.t, background, c1)
    ELSE IF Cardinality(c2) = 1
         THEN ReturnIf(test_func(through_kb, r.t, (background \cup c1) \cup c2),
                       CHOOSE d \in c2 : TRUE)
         ELSE _find_next_conflict_element_optimized(
                  through_kb, r.t, background \cup c1, c2)

\* the last candidate returned untested: `return c`
_find_next_conflict_element_optimized_untested(through_kb, t, background, cands) ==
    IF sorted(cands) = <<>> THEN [ret |-> None, t |-> t]
    ELSE IF Len(sorted(cands)) = 1
    THEN [ret |-> sorted(cands)[1], t |-> t]
    ELSE FindNextAfterFirstHalf(
             through_kb,
             test_func(through_kb, t,
                       background \cup Range(FirstHalf(sorted(cands)))),
             background,
             Range(FirstHalf(sorted(cands))),
             Range(SecondHalf(sorted(cands))))

\* candidates is sorted on entry, so it is given by its members
_find_next_conflict_element_optimized(through_kb, t, background, cands) ==
    IF sorted(cands) = <<>> THEN [ret |-> None, t |-> t]
    ELSE IF Len(sorted(cands)) = 1
    THEN ReturnIf(test_func(through_kb, t, background \cup {sorted(cands)[1]}),
                  sorted(cands)[1])
    ELSE FindNextAfterFirstHalf(
             through_kb,
             test_func(through_kb, t,
                       background \cup Range(FirstHalf(sorted(cands)))),
             background,
             Range(FirstHalf(sorted(cands))),
             Range(SecondHalf(sorted(cands))))

\* the statements before the loop
find_single_conflict_set_enter(t, all_components) ==
    Frame(t, {}, {}, sorted(Range(all_components)), 0, <<>>, "loop", "")

\* after `test_func(conflict_set)`, next_element added
SingleAfterConfirm(s, next_element, k) ==
    [s EXCEPT !.t = k.t,
              !.conflict_set = @ \cup {next_element},
              !.candidates = Remove(@, next_element),
              !.pc = IF k.res THEN "done" ELSE "loop",
              !.exit_by = IF k.res THEN "confirmed" ELSE ""]

\* after `next_element = _find_next_conflict_element_optimized(...)`
SingleAfterSearch(through_kb, s, r) ==
    IF r.ret = None
    THEN [s EXCEPT !.t = r.t, !.pc = "done", !.exit_by = "none"]
    ELSE SingleAfterConfirm(
             s, r.ret, test_func(through_kb, r.t, s.conflict_set \cup {r.ret}))

\* one iteration of `while True`
find_single_conflict_set_iter(through_kb, s) ==
    SingleAfterSearch(
        through_kb, s,
        _find_next_conflict_element_optimized(
            through_kb, s.t, s.conflict_set, Range(s.candidates)))

RECURSIVE RunSingle(_, _)
\* the loop run to its end
RunSingle(through_kb, s) ==
    IF s.pc # "loop" THEN s
    ELSE RunSingle(through_kb, find_single_conflict_set_iter(through_kb, s))

\* find_single_conflict_set(test_func, all_components): the final frame,
\* whose conflict_set is the returned set
find_single_conflict_set(through_kb, t, all_components) ==
    RunSingle(through_kb, find_single_conflict_set_enter(t, all_components))

\* find_conflicts_smart_additive(oracle, all_mods): IMCS on oracle.run
find_conflicts_smart_additive(t, mods) ==
    find_single_conflict_set(FALSE, t, mods)

----------------------------------------------------------------------------
(* Algorithm 3: classic ddmin (benchmark.py) *)

\* mods_list[i::granularity], i counted from 0
Slice(mods_list, i, g) ==
    [k \in 1..(IF Len(mods_list) <= i THEN 0
               ELSE ((Len(mods_list) - i - 1) \div g) + 1)
        |-> mods_list[i + 1 + (k - 1) * g]]

\* [mods_list[i::granularity] for i in range(granularity)]
Partitions(ts, g) == [k \in 1..g |-> Slice(sorted(ts), k - 1, g)]

RECURSIVE ScanPartitions(_, _, _, _)

\* after `oracle.run(complement)` for chunk i
ScanAfterTest(r, ts, partitions, i) ==
    IF r.res
    THEN [made_progress |-> TRUE, complement |-> ts \ Range(partitions[i]),
          t |-> r.t]
    ELSE ScanPartitions(r.t, ts, partitions, i + 1)

\* `for p in partitions`: the chunks from index i on, until a complement
\* fails; made_progress and the complement that failed
ScanPartitions(t, ts, partitions, i) ==
    IF i > Len(partitions)
    THEN [made_progress |-> FALSE, complement |-> ts, t |-> t]
    ELSE IF partitions[i] = <<>>
    THEN ScanPartitions(t, ts, partitions, i + 1)
    ELSE ScanAfterTest(OracleRun(t, ts \ Range(partitions[i])),
                       ts, partitions, i)

\* after `oracle.run(test_set)`
DdminAfterCheck(r, mods) ==
    IF ~r.res
    THEN Frame(r.t, {}, {}, <<>>, 2, <<>>, "done", "precheck")
    ELSE Frame(r.t, {}, Range(mods), <<>>, 2, <<>>, "loop", "")

\* find_conflicts_subtractive_ddmin up to its loop
find_conflicts_subtractive_ddmin_enter(t, mods) ==
    DdminAfterCheck(OracleRun(t, Range(mods)), mods)

\* the doubling not capped: `granularity = granularity * 2`
DdminAfterScan_uncapped(s, sc) ==
    IF sc.made_progress
    THEN [s EXCEPT !.t = sc.t, !.test_set = sc.complement, !.granularity = 2]
    ELSE IF s.granularity < Cardinality(s.test_set)
    THEN [s EXCEPT !.t = sc.t, !.granularity = s.granularity * 2]
    ELSE [s EXCEPT !.t = sc.t, !.pc = "done", !.exit_by = "granularity"]

\* the failing complement not taken over: `test_set = complement` missing
DdminAfterScan_not_replaced(s, sc) ==
    IF sc.made_progress
    THEN [s EXCEPT !.t = sc.t, !.granularity = 2]
    ELSE IF s.granularity < Cardinality(s.test_set)
    THEN [s EXCEPT !.t = sc.t,
                   !.granularity =
                       Min(Cardinality(s.test_set), s.granularity * 2)]
    ELSE [s EXCEPT !.t = sc.t, !.pc = "done", !.exit_by = "granularity"]

\* after the `for p in partitions` scan
DdminAfterScan(s, sc) ==
    IF sc.made_progress
    THEN [s EXCEPT !.t = sc.t, !.test_set = sc.complement, !.granularity = 2]
    ELSE IF s.granularity < Cardinality(s.test_set)
    THEN [s EXCEPT !.t = sc.t,
                   !.granularity =
                       Min(Cardinality(s.test_set), s.granularity * 2)]
    ELSE [s EXCEPT !.t = sc.t, !.pc = "done", !.exit_by = "granularity"]

\* one evaluation of the while condition and, if it holds, of the body
find_conflicts_subtractive_ddmin_iter(s) ==
    IF Cardinality(s.test_set) < 2
    THEN [s EXCEPT !.pc = "done", !.exit_by = "small"]
    ELSE DdminAfterScan(
             s, ScanPartitions(s.t, s.test_set,
                               Partitions(s.test_set, s.granularity), 1))

----------------------------------------------------------------------------
(* Algorithm 4: QuickXplain (benchmark.py) *)

RECURSIVE _quickxplain_recursive(_, _, _)

\* entry of _quickxplain_recursive(oracle, background, candidates) noted in
\* the trace
Invoked(t, background, cands) ==
    [t EXCEPT !.trace =
         Append(@, [at |-> "call", background |-> background,
                    candidates |-> cands])]

\* `return cs1`
Join_cs1_only(cs2_ret, cs1) == [ret |-> cs1.ret, t |-> cs1.t]

\* `return cs1.union(cs2)`
Join(cs2_ret, cs1) == [ret |-> cs1.ret \cup cs2_ret, t |-> cs1.t]

\* the refine pass run without the filter result in its background
QxpAfterFilter_filter_dropped(cs2, background, c1) ==
    Join(cs2.ret, _quickxplain_recursive(cs2.t, background, c1))

\* after the filter pass cs2: the refine pass over c1
QxpAfterFilter(cs2, background, c1) ==
    Join(cs2.ret,
         _quickxplain_recursive(cs2.t, background \cup cs2.ret, c1))

\* `return candidates` of base case 2 noted in the trace
BaseCaseReturn(t, background, cands) ==
    [ret |-> cands,
     t   |-> [t EXCEPT !.trace =
                  Append(@, [at |-> "base", background |-> background,
                             candidates |-> cands])]]

\* after `oracle.run(background)`
QxpAfterBackground(b, background, cands) ==
    IF b.res THEN [ret |-> {}, t |-> b.t]
    ELSE IF Cardinality(cands) = 1
    THEN BaseCaseReturn(b.t, background, cands)
    ELSE QxpAfterFilter(
             _quickxplain_recursive(
                 b.t, background \cup Range(FirstHalf(ListOf(cands))),
                 Range(SecondHalf(ListOf(cands)))),
             background, Range(FirstHalf(ListOf(cands))))

\* returns [ret |-> the explanation, t |-> the oracle afterwards]
_quickxplain_recursive(t, background, cands) ==
    IF cands = {} THEN [ret |-> {}, t |-> Invoked(t, background, cands)]
    ELSE QxpAfterBackground(
             OracleRun(Invoked(t, background, cands), background),
             background, cands)

\* after `oracle.run(set(all_mods))`
QxpAfterCheck(r, mods) ==
    IF ~r.res THEN [ret |-> {}, t |-> r.t]
    ELSE _quickxplain_recursive(r.t, {}, Range(mods))

find_conflicts_qxp(t, mods) == QxpAfterCheck(OracleRun(t, Range(mods)), mods)

----------------------------------------------------------------------------
(* The adaptive hybrid (benchmark.py) *)

RECURSIVE _adaptive_recursive(_, _, _)

\* strategy 1, after the filter pass cs2
AdaptiveAfterFilter(cs2, background, c1) ==
    Join(cs2.ret, _adaptive_recursive(cs2.t, background \cup cs2.ret, c1))

\* `{culprit}.union(...)`
WithCulprit(next_culprit, rest) ==
    [ret |-> {next_culprit} \cup rest.ret, t |-> rest.t]

\* strategy 2, after `next_culprit = _find_one_culprit_recursive(...)`
AdaptiveAfterSearch(n, background, cands) ==
    IF n.ret = None THEN [ret |-> {}, t |-> n.t]
    ELSE WithCulprit(
             n.ret,
             _adaptive_recursive(n.t, background \cup {n.ret}, cands \ {n.ret}))

\* the strategy switch off by one: `len(candidates) < ADAPTIVE_THRESHOLD`
AdaptiveAfterBackground_strict(b, background, cands) ==
    IF b.res THEN [ret |-> {}, t |-> b.t]
    ELSE IF Cardinality(cands) < ADAPTIVE_THRESHOLD
    THEN IF Cardinality(cands) = 1 THEN [ret |-> cands, t |-> b.t]
         ELSE AdaptiveAfterFilter(
                  _adaptive_recursive(
                      b.t, background \cup Range(FirstHalf(ListOf(cands))),
                      Range(SecondHalf(ListOf(cands)))),
                  background, Range(FirstHalf(ListOf(cands))))
    ELSE AdaptiveAfterSearch(
             _find_one_culprit_recursive(b.t, background, ListOf(cands)),
             background, cands)

\* after `oracle.run(background)`
AdaptiveAfterBackground(b, background, cands) ==
    IF b.res THEN [ret |-> {}, t |-> b.t]
    ELSE IF Cardinality(cands) <= ADAPTIVE_THRESHOLD
    THEN IF Cardinality(cands) = 1 THEN [ret |-> cands, t |-> b.t]
         ELSE AdaptiveAfterFilter(
                  _adaptive_recursive(
                      b.t, background \cup Range(FirstHalf(ListOf(cands))),
                      Range(SecondHalf(ListOf(cands)))),
                  background, Range(FirstHalf(ListOf(cands))))
    ELSE AdaptiveAfterSearch(
             _find_one_culprit_recursive(b.t, background, ListOf(cands)),
             background, cands)

_adaptive_recursive(t, background, cands) ==
    IF cands = {} THEN [ret |-> {}, t |-> t]
    ELSE AdaptiveAfterBackground(OracleRun(t, background), background, cands)

\* after `oracle.run(set(all_mods))`
AdaptiveAfterCheck(r, mods) ==
    IF ~r.res THEN [ret |-> {}, t |-> r.t]
    ELSE _adaptive_recursive(r.t, {}, Range(mods))

find_conflicts_adaptive(t, mods) ==
    AdaptiveAfterCheck(OracleRun(t, Range(mods)), mods)

----------------------------------------------------------------------------
(* The IMCS enumerator (enumeration.py) *)

\* the statements before the loop; the KnowledgeBase is created here
find_all_conflict_sets_enumerator_enter(t, all_components) ==
    Frame([t EXCEPT !.cache = EmptyDict], {}, {}, Range(all_components), 0,
          <<>>, "loop", "")

\* the early exit taken without looking at the test of the rest
EnumeratorAfterClean_break_always(s, new_conflict_set, k) ==
    [s EXCEPT !.t = k.t,
              !.all_conflict_sets = Append(@, new_conflict_set),
              !.candidates = @ \ new_conflict_set,
              !.pc = "done",
              !.exit_by = "clean"]

\* the early exit taken when the rest still fails
EnumeratorAfterClean_inverted(s, new_conflict_set, k) ==
    [s EXCEPT !.t = k.t,
              !.all_conflict_sets = Append(@, new_conflict_set),
              !.candidates = @ \ new_conflict_set,
              !.pc = IF k.res THEN "done" ELSE "loop",
              !.exit_by = IF k.res THEN "clean" ELSE ""]

\* the found set left in the pool: `candidates -= new_conflict_set` missing
EnumeratorAfterClean_pool_kept(s, new_conflict_set, k) ==
    [s EXCEPT !.t = k.t,
              !.all_conflict_sets = Append(@, new_conflict_set),
              !.pc = IF k.res THEN "loop" ELSE "done",
              !.exit_by = IF k.res THEN "" ELSE "clean"]

\* after `knowledge_base.test(candidates)`, new_conflict_set removed
EnumeratorAfterClean(s, new_conflict_set, k) ==
    [s EXCEPT !.t = k.t,
              !.all_conflict_sets = Append(@, new_conflict_set),
              !.candidates = @ \ new_conflict_set,
              !.pc = IF k.res THEN "loop" ELSE "done",
              !.exit_by = IF k.res THEN "" ELSE "clean"]

\* after `new_conflict_set = find_single_conflict_set(...)`
EnumeratorAfterSearch(through_kb, s, r) ==
    IF r.conflict_set = {}
    THEN [s EXCEPT !.t = r.t, !.pc = "done", !.exit_by = "empty"]
    ELSE EnumeratorAfterClean(
             s, r.conflict_set,
             test_func(through_kb, r.t, s.candidates \ r.conflict_set))

\* one iteration of `while True`; through_kb is TRUE in the code
EnumeratorIter(through_kb, s) ==
    EnumeratorAfterSearch(
        through_kb, s,
        find_single_conflict_set(through_kb, s.t, ListOf(s.candidates)))

find_all_conflict_sets_enumerator_iter(s) == EnumeratorIter(TRUE, s)

RECURSIVE RunEnumerator(_, _)
RunEnumerator(through_kb, s) ==
    IF s.pc # "loop" THEN s
    ELSE RunEnumerator(through_kb, EnumeratorIter(through_kb, s))

----------------------------------------------------------------------------
(* The inputs of a session *)

Universe(n) == 0..(n - 1)

Antichain(F) == \A a \in F : \A b \in F : a \subseteq b => a = b

\* TestRunner(problematic_sets): monotone, the minimal failing sets given
Superset(F) == [kind |-> "superset", sets |-> F]

\* any pure oracle, given by the subsets it fails on
Table(F) == [kind |-> "table", sets |-> F]

\* where the planted components of a large universe are taken from
Probe(n) == ({0, (n \div 2) - 1, n \div 2, n - 1} \cup ExampleSet)
            \cap Universe(n)

\* the ends and the middle of a large universe
Ends(n) == {0, n \div 2, n - 1} \cap Universe(n)

MonotoneInputs ==
    UNION {{<<n, Superset(F)>> :
               F \in {G \in SubsetsUpTo(SUBSET Universe(n), MaxSets) :
                         Antichain(G)}} : n \in 0..MaxN}

TableInputs ==
    UNION {{<<n, Table(F)>> :
               F \in SubsetsUpTo(SUBSET Universe(n), MaxFail)} :
           n \in 0..SmallN}

PlantedInputs ==
    {<<SmallN, Superset({P})>> :
        P \in SubsetsUpTo(Universe(SmallN), MaxP) \ {{}}}
    \cup
    UNION {{<<n, Superset({P})>> :
               P \in SubsetsUpTo(Probe(n), MaxP) \ {{}}} :
           n \in {ExampleN, ADAPTIVE_THRESHOLD, BigN}}

BigInputs ==
    {<<BigN, Superset(F)>> :
        F \in {G \in SubsetsUpTo(SUBSET Ends(BigN), MaxSets) : Antichain(G)}}

\* the enumerator's benchmark: disjoint planted sets of sizes 2 and 3
EnumInputs ==
    {<<EnumN, Superset({{1, EnumN \div 2}, {0, (EnumN \div 2) - 1, EnumN - 1}})>>}

Inputs ==
    MonotoneInputs \cup TableInputs \cup PlantedInputs \cup BigInputs
    \cup EnumInputs

\* a KnowledgeBase session: the universes that hold KBComponents
KBInputs ==
    {in \in MonotoneInputs \cup TableInputs :
        in[1] <= Cardinality(KBComponents) + 1}

\* the lists handed to KnowledgeBase.test directly
KBLists == UNION {[1..k -> KBComponents] : k \in 0..MaxLen}

\* the helpers called directly: the small universes, any pure oracle
HelperInputs ==
    {in \in MonotoneInputs \cup TableInputs : in[1] <= MaxPoolN}

\* the ordered pools over U: its components, each at most once, in any order
Pools(U) ==
    {q \in UNION {[1..k -> U] : k \in 0..Cardinality(U)} :
        \A i \in DOMAIN q : \A j \in DOMAIN q : q[i] = q[j] => i = j}

NoCall == [arg |-> <<>>, res |-> FALSE, before |-> 0]

InitWith(in) ==
    /\ all_mods = RangeList(in[1])
    /\ oracle = in[2]
    /\ hashOrder \in Orders(in[1])
    /\ alg = "none"
    /\ pc = "idle"
    /\ test_count = 0
    /\ calls = <<>>
    /\ cache = EmptyDict
    /\ conflict_set = {}
    /\ test_set = {}
    /\ candidates = <<>>
    /\ enum_candidates = {}
    /\ granularity = 0
    /\ all_conflict_sets = <<>>
    /\ exit_by = ""
    /\ last = NoCall
    /\ found = {}
    /\ found_sets = <<>>
    /\ culprit = None

Init == \E in \in Inputs : InitWith(in)

InitKB == \E in \in KBInputs : InitWith(in)

\* the universes small enough for every run to be followed to its end
InitSmall == \E in \in {i \in Inputs : i[1] <= MaxFairN} : InitWith(in)

\* the helpers take lists; no set is iterated
InitHelper == \E in \in HelperInputs : InitWith(in) /\ hashOrder = all_mods

----------------------------------------------------------------------------
(* The steps of a session *)

Current ==
    Frame(Tester(test_count, calls, cache), conflict_set, test_set,
          candidates, granularity, all_conflict_sets, pc, exit_by)

\* the enumerator's locals
CurrentEnumerator == [Current EXCEPT !.candidates = enum_candidates]

\* the locals of the find_single_conflict_set call the enumerator is in
CurrentSingle ==
    [Current EXCEPT !.pc = "loop", !.all_conflict_sets = <<>>]

\* the locals after a step of a single-conflict search; result names the
\* local that is returned
Install(s, result) ==
    /\ test_count' = s.t.test_count
    /\ calls' = s.t.calls
    /\ cache' = s.t.cache
    /\ conflict_set' = s.conflict_set
    /\ test_set' = s.test_set
    /\ candidates' = s.candidates
    /\ granularity' = s.granularity
    /\ all_conflict_sets' = s.all_conflict_sets
    /\ pc' = s.pc
    /\ exit_by' = s.exit_by
    /\ found' = IF s.pc = "done" THEN s[result] ELSE found
    /\ UNCHANGED <<enum_candidates, found_sets, culprit>>

\* the locals after a step of the enumerator: s its own locals, single those
\* of its find_single_conflict_set call
InstallEnumerator(s, single) ==
    /\ test_count' = s.t.test_count
    /\ calls' = s.t.calls
    /\ cache' = s.t.cache
    /\ conflict_set' = single.conflict_set
    /\ candidates' = single.candidates
    /\ enum_candidates' = s.candidates
    /\ all_conflict_sets' = s.all_conflict_sets
    /\ pc' = s.pc
    /\ exit_by' = s.exit_by
    /\ found_sets' = IF s.pc = "done" THEN s.all_conflict_sets ELSE found_sets
    /\ UNCHANGED <<test_set, granularity, found, culprit>>

\* a whole call that has no loop of its own: r is [ret, t]
Return(r) ==
    /\ test_count' = r.t.test_count
    /\ calls' = r.t.calls
    /\ cache' = r.t.cache
    /\ pc' = "done"
    /\ found' = r.ret
    /\ UNCHANGED <<conflict_set, test_set, candidates, granularity,
                   all_conflict_sets, exit_by, enum_candidates, found_sets,
                   culprit>>

Inputs_unchanged == UNCHANGED <<all_mods, oracle, hashOrder>>

TheUniverse == Range(all_mods)

\* found = find_conflicts_additive(oracle, all_mods)
AdditiveCall ==
    /\ pc = "idle"
    /\ alg' = "additive"
    /\ Install(find_conflicts_additive_enter(NewOracle, all_mods),
               "conflict_set")
    /\ UNCHANGED last /\ Inputs_unchanged

AdditiveLoop ==
    /\ pc = "loop" /\ alg = "additive"
    /\ Install(find_conflicts_additive_iter(Current), "conflict_set")
    /\ UNCHANGED <<alg, last>> /\ Inputs_unchanged

\* found = find_conflicts_smart_additive(oracle, all_mods), and
\* FindConflictSet(oracle, C_all) of example.py
SmartAdditiveCall ==
    /\ pc = "idle"
    /\ alg' = "smart"
    /\ Install(find_single_conflict_set_enter(NewOracle, all_mods),
               "conflict_set")
    /\ UNCHANGED last /\ Inputs_unchanged

\* found = find_single_conflict_set(KnowledgeBase(oracle).test, all_mods)
SingleThroughCacheCall ==
    /\ pc = "idle"
    /\ alg' = "single_kb"
    /\ Install(find_single_conflict_set_enter(NewOracle, all_mods),
               "conflict_set")
    /\ UNCHANGED last /\ Inputs_unchanged

SmartAdditiveLoop ==
    /\ pc = "loop" /\ alg \in {"smart", "single_kb"}
    /\ Install(find_single_conflict_set_iter(alg = "single_kb", Current),
               "conflict_set")
    /\ UNCHANGED <<alg, last>> /\ Inputs_unchanged

\* found = find_conflicts_subtractive_ddmin(oracle, all_mods)
DdminCall ==
    /\ pc = "idle"
    /\ alg' = "ddmin"
    /\ Install(find_conflicts_subtractive_ddmin_enter(NewOracle, all_mods),
               "test_set")
    /\ UNCHANGED last /\ Inputs_unchanged

DdminLoop ==
    /\ pc = "loop" /\ alg = "ddmin"
    /\ Install(find_conflicts_subtractive_ddmin_iter(Current), "test_set")
    /\ UNCHANGED <<alg, last>> /\ Inputs_unchanged

\* found = find_conflicts_qxp(oracle, all_mods)
QxpCall ==
    /\ pc = "idle"
    /\ alg' = "qxp"
    /\ Return(find_conflicts_qxp(NewOracle, all_mods))
    /\ UNCHANGED last /\ Inputs_unchanged

\* found = find_conflicts_adaptive(oracle, all_mods)
AdaptiveCall ==
    /\ pc = "idle"
    /\ alg' = "adaptive"
    /\ Return(find_conflicts_adaptive(NewOracle, all_mods))
    /\ UNCHANGED last /\ Inputs_unchanged

\* found_sets = find_all_conflict_sets_enumerator(all_mods, oracle), up to
\* its loop
EnumeratorCall ==
    /\ pc = "idle"
    /\ alg' = "enum"
    /\ InstallEnumerator(
           find_all_conflict_sets_enumerator_enter(NewOracle, all_mods),
           Current)
    /\ UNCHANGED last /\ Inputs_unchanged

\* the enumerator calls find_single_conflict_set(knowledge_base.test,
\* list(candidates)), whose statements before the loop run
EnumeratorSearch ==
    /\ pc = "loop" /\ alg = "enum"
    /\ InstallEnumerator(
           [CurrentEnumerator EXCEPT !.pc = "single"],
           find_single_conflict_set_enter(
               Tester(test_count, calls, cache), ListOf(enum_candidates)))
    /\ UNCHANGED <<alg, last>> /\ Inputs_unchanged

\* after an iteration of the loop of find_single_conflict_set: when it has
\* returned, the rest of the enumerator's iteration
EnumeratorAfterSingle(s, single) ==
    IF single.pc = "loop"
    THEN [s EXCEPT !.t = single.t]
    ELSE EnumeratorAfterSearch(TRUE, [s EXCEPT !.pc = "loop"], single)

\* one iteration of the loop of find_single_conflict_set inside the
\* enumerator and, when the call returns, the enumerator up to its next call
EnumeratorLoop ==
    /\ pc = "single" /\ alg = "enum"
    /\ InstallEnumerator(
           EnumeratorAfterSingle(
               CurrentEnumerator,
               find_single_conflict_set_iter(TRUE, CurrentSingle)),
           find_single_conflict_set_iter(TRUE, CurrentSingle))
    /\ UNCHANGED <<alg, last>> /\ Inputs_unchanged

\* after knowledge_base.test(lst), called on a KnowledgeBase of its own
KnowledgeBaseAnswer(r, lst) ==
    /\ test_count' = r.t.test_count
    /\ calls' = r.t.calls
    /\ cache' = r.t.cache
    /\ last' = [arg |-> lst, res |-> r.res, before |-> test_count]

\* KnowledgeBase(oracle), then any sequence of knowledge_base.test(lst)
KnowledgeBaseCall ==
    /\ pc \in {"idle", "kb"}
    /\ pc' = "kb"
    /\ alg' = "kb"
    /\ \E lst \in KBLists :
           /\ Range(lst) \subseteq TheUniverse
           /\ KnowledgeBaseAnswer(
                  KnowledgeBaseTest(Tester(test_count, calls, cache), lst), lst)
    /\ UNCHANGED <<conflict_set, test_set, candidates, enum_candidates,
                   granularity, all_conflict_sets, exit_by, found, found_sets,
                   culprit>>
    /\ Inputs_unchanged

\* after a helper called on its own: r is [ret, t]
HelperAnswer(r, background, pool) ==
    /\ test_count' = r.t.test_count
    /\ calls' = r.t.calls
    /\ cache' = r.t.cache
    /\ culprit' = r.ret
    /\ conflict_set' = background
    /\ candidates' = pool
    /\ pc' = "helper"
    /\ UNCHANGED <<test_set, enum_candidates, granularity, all_conflict_sets,
                   exit_by, last, found, found_sets>>
    /\ Inputs_unchanged

\* next_culprit = _find_one_culprit_recursive(oracle, background, pool)
FindOneCall ==
    /\ pc = "idle"
    /\ alg' = "find_one"
    /\ \E background \in SUBSET TheUniverse : \E pool \in Pools(TheUniverse) :
           HelperAnswer(_find_one_culprit_recursive(NewOracle, background, pool),
                        background, pool)

\* next_element = _find_next_conflict_element_optimized(oracle, background, pool)
FindNextCall ==
    /\ pc = "idle"
    /\ alg' = "find_next"
    /\ \E background \in SUBSET TheUniverse : \E pool \in Pools(TheUniverse) :
           HelperAnswer(
               _find_next_conflict_element_optimized(
                   FALSE, NewOracle, background, Range(pool)),
               background, pool)

Next ==
    \/ AdditiveCall \/ AdditiveLoop
    \/ SmartAdditiveCall \/ SingleThroughCacheCall \/ SmartAdditiveLoop
    \/ DdminCall \/ DdminLoop
    \/ QxpCall
    \/ AdaptiveCall
    \/ EnumeratorCall \/ EnumeratorSearch \/ EnumeratorLoop

Spec == Init /\ [][Next]_vars

\* a program that has a statement to execute executes it; the universes
\* of at most MaxFairN components
SpecFair == InitSmall /\ [][Next]_vars /\ WF_vars(Next)

\* sessions that go through a KnowledgeBase
NextKB ==
    \/ KnowledgeBaseCall
    \/ SingleThroughCacheCall \/ SmartAdditiveLoop
    \/ EnumeratorCall \/ EnumeratorSearch \/ EnumeratorLoop

SpecKB == InitKB /\ [][NextKB]_vars

\* the single-fault helpers called on their own
NextHelper == FindOneCall \/ FindNextCall

SpecHelper == InitHelper /\ [][NextHelper]_vars

----------------------------------------------------------------------------
(* Vocabulary of the properties *)

\* the five single-conflict searches of benchmark.py
SingleSearches == {"additive", "smart", "ddmin", "qxp", "adaptive"}

\* failure is preserved under superset
Monotone ==
    \/ oracle.kind = "superset"
    \/ \A S \in oracle.sets : \A T \in SUBSET TheUniverse :
           S \subseteq T => T \in oracle.sets

\* exactly one planted conflict set, non-empty and inside the universe
SinglePlanted ==
    /\ oracle.kind = "superset"
    /\ Cardinality(oracle.sets) = 1
    /\ \A P \in oracle.sets : P # {} /\ P \subseteq TheUniverse

\* k planted conflict sets, non-empty, pairwise disjoint, inside the universe
DisjointPlanted ==
    /\ oracle.kind = "superset"
    /\ \A P \in oracle.sets : P # {} /\ P \subseteq TheUniverse
    /\ \A P \in oracle.sets : \A Q \in oracle.sets : P # Q => P \cap Q = {}

Returned(a) == alg = a /\ pc = "done"

----------------------------------------------------------------------------
(* C1: with one planted non-empty conflict set P inside the universe,     *)
(* each of the five single-conflict searches returns exactly P and does   *)
(* not raise; this covers IMCS on the 16 letters with P = {c, k, p}.       *)
C1_ExactPlanted ==
    (alg \in SingleSearches /\ SinglePlanted) =>
        /\ pc # "raised"
        /\ pc = "done" => oracle.sets = {found}

\* IMCS has returned {c, k, p} on the universe a..p
C1_Witness ==
    /\ Returned("smart")
    /\ Len(all_mods) = ExampleN
    /\ oracle = Superset({ExampleSet})
    /\ found = ExampleSet

(* C2: with k non-empty pairwise-disjoint planted sets the enumerator     *)
(* returns a sequence of exactly k sets which, as a collection, are the   *)
(* planted sets.                                                           *)
C2_EnumeratorComplete ==
    (Returned("enum") /\ DisjointPlanted) =>
        /\ Len(found_sets) = Cardinality(oracle.sets)
        /\ Range(found_sets) = oracle.sets

\* the enumerator has returned two planted sets
C2_Witness ==
    /\ Returned("enum") /\ DisjointPlanted
    /\ Cardinality(oracle.sets) = 2
    /\ Len(found_sets) = 2

(* C3: under every monotone oracle the set C returned by a              *)
(* single-conflict search has evaluate(C \ {c}) = false for every c in C.  *)
C3_Minimal ==
    (alg \in SingleSearches /\ pc = "done" /\ Monotone) =>
        \A c \in found : ~Evaluate(found \ {c})

(* C4: under every monotone oracle that fails on the full universe the    *)
(* set C returned by a single-conflict search has evaluate(C) = true.      *)
C4_Sound ==
    (alg \in SingleSearches /\ pc = "done" /\ Monotone
        /\ Evaluate(TheUniverse)) => Evaluate(found)

\* the adaptive hybrid has returned a failing set of two components out of
\* a universe above its threshold
C4_Witness ==
    /\ Returned("adaptive")
    /\ Len(all_mods) > ADAPTIVE_THRESHOLD
    /\ Cardinality(found) = 2
    /\ Evaluate(found)

(* C5: a KnowledgeBase calls the oracle at most once for a subset: no    *)
(* two real calls are on the same subset, and a test of a subset that was *)
(* tested before, in whatever order or multiplicity its components are    *)
(* listed, leaves the counter of real calls alone and answers what the    *)
(* oracle answered.                                                        *)
C5_OneRealCallPerSubset ==
    (alg \in {"kb", "single_kb", "enum"}) =>
        /\ \A i \in 1..Len(calls) : \A j \in 1..Len(calls) :
               calls[i] = calls[j] => i = j
        /\ test_count = Len(calls)
        /\ (alg = "kb" /\ \E i \in 1..last.before :
                              calls[i] = Range(last.arg)) =>
               /\ test_count = last.before
               /\ last.res = Evaluate(Range(last.arg))

\* two real calls made, then {0, 1} asked again as the list [1, 0] and
\* answered without a real call
C5_Witness ==
    /\ alg = "kb"
    /\ last.arg = <<1, 0>>
    /\ test_count = 2
    /\ last.before = 2
    /\ \E i \in 1..2 : calls[i] = {0, 1}

\* what the searches return on the oracle itself, from a fresh counter
DirectSingle == find_conflicts_smart_additive(NewOracle, all_mods)

DirectEnumerator ==
    RunEnumerator(FALSE,
                  find_all_conflict_sets_enumerator_enter(NewOracle, all_mods))

(* C6: IMCS and the enumerator, run through KnowledgeBase.test, return    *)
(* what they return on the oracle itself, with no more real oracle calls. *)
C6_CacheTransparent ==
    /\ Returned("single_kb") =>
           /\ found = DirectSingle.conflict_set
           /\ test_count <= DirectSingle.t.test_count
    /\ Returned("enum") =>
           /\ found_sets = DirectEnumerator.all_conflict_sets
           /\ test_count <= DirectEnumerator.t.test_count

\* the enumerator has returned two conflict sets with fewer real calls than
\* it makes without the cache
C6_Witness ==
    /\ Returned("enum")
    /\ Len(found_sets) = 2
    /\ test_count < DirectEnumerator.t.test_count

\* the universe {0,1,2,3,4} with the planted conflict {2}
Scenario2 == Len(all_mods) = SmallN /\ oracle = Superset({{2}})

(* C7 as claimed: on the universe {0,1,2,3,4} with planted conflict {2}   *)
(* every single-conflict search returns {2} with the oracle's counter at  *)
(* most 3.                                                                 *)
C7_AtMostThreeCalls ==
    (alg \in SingleSearches /\ pc = "done" /\ Scenario2) =>
        /\ found = {2}
        /\ test_count <= 3

(* C7 as amended: there every search returns {2}; the counter is 3 for    *)
(* IMCS, 4 for ddmin, 6 for the additive search, and for QuickXplain and  *)
(* the adaptive hybrid 6 when sets iterate in ascending order and at most *)
(* 8 in any order.                                                         *)
C7_CallCounts ==
    (alg \in SingleSearches /\ pc = "done" /\ Scenario2) =>
        /\ found = {2}
        /\ alg = "smart" => test_count = 3
        /\ alg = "ddmin" => test_count = 4
        /\ alg = "additive" => test_count = 6
        /\ alg \in {"qxp", "adaptive"} =>
               /\ test_count <= 8
               /\ hashOrder = all_mods => test_count = 6

\* QuickXplain has returned {2} after 8 oracle calls
C7_Witness ==
    /\ Returned("qxp") /\ Scenario2
    /\ found = {2}
    /\ test_count = 8

\* some oracle call on a subset of S has failed: S fails if the oracle is
\* monotone
KnownToFail(S) ==
    \E i \in 1..Len(calls) : calls[i] \subseteq S /\ Evaluate(calls[i])

(* C8: when the single-fault step of IMCS returns none with components    *)
(* accumulated, although the accumulated set with the remaining pool is   *)
(* known to fail (a subset of it has failed), the search raises and does  *)
(* not return the accumulated set.                                         *)
C8_RaisesOnNone ==
    (/\ alg \in {"smart", "single_kb"}
     /\ exit_by = "none"
     /\ conflict_set # {}
     /\ KnownToFail(conflict_set \cup Range(candidates))) =>
        pc = "raised"

\* the IMCS runs, on the oracle or through the cache
IsIMCS == alg \in {"smart", "single_kb"}

(* C9 as claimed: the first oracle call of IMCS is on the full pool, and  *)
(* when the full pool is good IMCS returns the empty set with exactly     *)
(* that one call.                                                          *)
C9_PreCheck ==
    (IsIMCS /\ test_count >= 1) =>
        /\ calls[1] = TheUniverse
        /\ (pc = "done" /\ ~Evaluate(TheUniverse)) =>
               found = {} /\ test_count = 1

RECURSIVE NoFaultCalls(_)
\* the length of the single-fault search of a pool of n >= 1 components none
\* of whose prefixes fails: 1 + ceil(log2(n))
NoFaultCalls(n) == IF n <= 1 THEN n ELSE 1 + NoFaultCalls(n - (n \div 2))

(* C9 as amended: IMCS has no pre-check.  Its first oracle call is on the *)
(* first floor(n/2) components of the sorted pool (on the pool when       *)
(* n = 1), and under a monotone oracle that is good on the full pool it   *)
(* returns the empty set after the single-fault search has made           *)
(* ceil(log2 n) + 1 calls (none when n = 0), the last on the full pool.   *)
C9_NoPreCheck ==
    (IsIMCS /\ test_count >= 1) =>
        /\ calls[1] = IF Len(all_mods) = 1 THEN TheUniverse
                      ELSE {x \in TheUniverse : x < Len(all_mods) \div 2}
        /\ (pc = "done" /\ Monotone /\ ~Evaluate(TheUniverse)) =>
               /\ found = {}
               /\ exit_by = "none"
               /\ test_count = NoFaultCalls(Len(all_mods))
               /\ calls[test_count] = TheUniverse

\* IMCS has returned the empty set on a good universe of 51 components
\* after 7 oracle calls, the first on the components 0..24
C9_Witness ==
    /\ Returned("smart")
    /\ Len(all_mods) = BigN
    /\ Monotone /\ ~Evaluate(TheUniverse)
    /\ found = {}
    /\ test_count = 7
    /\ calls[1] = 0..24

(* C10: under every monotone oracle that is good on the full universe     *)
(* each single-conflict search returns the empty set and does not raise.   *)
C10_NoFault ==
    (alg \in SingleSearches /\ Monotone /\ ~Evaluate(TheUniverse)) =>
        /\ pc # "raised"
        /\ pc = "done" => found = {}

\* IMCS has returned the empty set after searching a universe of four
\* components that does not fail
C10_Witness ==
    /\ Returned("smart")
    /\ Len(all_mods) = 4
    /\ Monotone /\ ~Evaluate(TheUniverse)
    /\ found = {}
    /\ test_count > 1

(* C11: during and after every run of the enumerator, under any oracle,  *)
(* the sets of the result sequence are non-empty, pairwise disjoint and   *)
(* disjoint from the remaining pool, and together with the pool they make *)
(* up the universe.                                                        *)
C11_EnumeratorPartition ==
    (alg = "enum") =>
        /\ \A i \in 1..Len(all_conflict_sets) :
               /\ all_conflict_sets[i] # {}
               /\ all_conflict_sets[i] \cap enum_candidates = {}
               /\ \A j \in 1..Len(all_conflict_sets) :
                      i # j => all_conflict_sets[i] \cap all_conflict_sets[j] = {}
        /\ UNION Range(all_conflict_sets) \cup enum_candidates = TheUniverse

\* the enumerator has returned the two planted sets of sizes 2 and 3 out of
\* the universe of 128 components
C11_Witness ==
    /\ Returned("enum")
    /\ Len(all_mods) = EnumN
    /\ Len(all_conflict_sets) = 2
    /\ {Cardinality(all_conflict_sets[i]) : i \in 1..2} = {2, 3}
    /\ Cardinality(enum_candidates) = EnumN - 5

\* the five single-conflict searches and the enumerator
Algorithms == SingleSearches \cup {"enum"}

\* an algorithm has returned an empty result
ReturnedEmpty ==
    /\ pc = "done"
    /\ alg = "enum" => found_sets = <<>>
    /\ alg # "enum" => found = {}

(* C12 as claimed: on an empty universe each of the five searches and the *)
(* enumerator returns an empty result, raises no error and has made at    *)
(* most one oracle call when it returns.                                   *)
C12_EmptyUniverseOneCall ==
    (Len(all_mods) = 0 /\ alg \in Algorithms) =>
        /\ pc # "raised"
        /\ pc = "done" => (ReturnedEmpty /\ test_count <= 1)

(* C12 as amended: the same, except that the additive search has made two *)
(* oracle calls when the oracle fails on the empty set.  (IMCS and the    *)
(* enumerator make no call, ddmin, QuickXplain and the adaptive hybrid    *)
(* one.)                                                                   *)
C12_EmptyUniverse ==
    (Len(all_mods) = 0 /\ alg \in Algorithms) =>
        /\ pc # "raised"
        /\ pc = "done" =>
               /\ ReturnedEmpty
               /\ alg \in {"smart", "enum"} => test_count = 0
               /\ alg \in {"ddmin", "qxp", "adaptive"} => test_count = 1
               /\ alg = "additive" =>
                      test_count = IF Evaluate({}) THEN 2 ELSE 1

\* the additive search has returned the empty set from an empty universe
\* after two oracle calls
C12_Witness ==
    /\ Returned("additive")
    /\ Len(all_mods) = 0
    /\ found = {}
    /\ test_count = 2

\* the pool up to and including its k-th component
Prefix(k) == Range(SubSeq(candidates, 1, k))

(* C13: under a monotone oracle, with a background the oracle is good on, *)
(* _find_one_culprit_recursive returns none exactly when the oracle is    *)
(* good on background and pool together; otherwise it returns the         *)
(* component c of the pool for which the oracle fails on the background   *)
(* with the pool up to and including c and is good on the background with *)
(* the pool before c.                                                      *)
C13_FindOneResult ==
    (alg = "find_one" /\ Monotone /\ ~Evaluate(conflict_set)) =>
        IF ~Evaluate(conflict_set \cup Range(candidates))
        THEN culprit = None
        ELSE \E k \in 1..Len(candidates) :
                 /\ culprit = candidates[k]
                 /\ Evaluate(conflict_set \cup Prefix(k))
                 /\ ~Evaluate(conflict_set \cup Prefix(k - 1))

\* the helper has returned the last component of the pool [2, 0, 1] after
\* finding the pool before it good
C13_Witness ==
    /\ alg = "find_one" /\ Monotone
    /\ conflict_set = {}
    /\ candidates = <<2, 0, 1>>
    /\ culprit = 1
    /\ test_count = 3

\* what QuickXplain does on the same universe and oracle
DirectQxp == find_conflicts_qxp(NewOracle, all_mods)

C15_Granularity ==
    [][(alg' = "ddmin") =>
          /\ (pc' = "loop" /\ Cardinality(test_set') >= 2) =>
                 /\ 2 <= granularity'
                 /\ granularity' <= Cardinality(test_set')
                 /\ \A k \in 1..granularity' :
                        Slice(sorted(test_set'), k - 1, granularity') # <<>>
          /\ (alg = "ddmin" /\ test_set' # test_set) => granularity' = 2
          /\ (exit_by' = "granularity") =>
                 /\ test_set' = test_set
                 /\ granularity' = Cardinality(test_set')]_vars

\* ddmin is about to scan a working set of three components, smaller than
\* the universe, in three chunks: it has replaced the working set and then
\* doubled the granularity up to the cap
C15_Witness ==
    /\ alg = "ddmin" /\ pc = "loop"
    /\ Cardinality(test_set) = 3
    /\ Cardinality(test_set) < Len(all_mods)
    /\ granularity = 3

\* a ddmin iteration shrinks the working set, raises the granularity or
\* leaves the loop
DdminProgress ==
    (alg = "ddmin" /\ pc = "loop") =>
        IF pc' = "loop"
        THEN IF test_set' = test_set
             THEN granularity' > granularity
             ELSE test_set' \subseteq test_set
        ELSE pc' = "done"

\* an enumerator iteration, which ends when its find_single_conflict_set
\* call has returned, shrinks the pool or leaves the loop
EnumeratorProgress ==
    (alg = "enum" /\ pc = "single") =>
        IF pc' = "single"
        THEN Len(candidates') < Len(candidates)
        ELSE IF pc' = "loop"
        THEN /\ enum_candidates' \subseteq enum_candidates
             /\ enum_candidates' # enum_candidates
        ELSE pc' = "done"

(* C16: under every deterministic oracle, monotone or not, every search   *)
(* and the enumerator end by returning or raising; every ddmin iteration  *)
(* shrinks the working set, raises the granularity or exits, and every    *)
(* enumerator iteration shrinks the pool or exits.                         *)
C16_Terminates ==
    /\ <>(pc \in {"done", "raised"})
    /\ [][DdminProgress /\ EnumeratorProgress]_vars

\* the enumerator has returned under an oracle that is not monotone, after
\* an iteration that shrank the pool
C16_Witness ==
    /\ Returned("enum")
    /\ ~Monotone
    /\ Len(found_sets) = 1
    /\ enum_candidates # TheUniverse

(* C17 as claimed: under every monotone oracle find_conflicts_additive    *)
(* does not raise, and IMCS leaves its loop through `if next_element is   *)
(* None` only with an empty accumulated conflict set, in a first          *)
(* iteration on a pool that does not fail.                                 *)
C17_FirstIterationGoodPool ==
    Monotone =>
        /\ alg = "additive" => pc # "raised"
        /\ (IsIMCS /\ exit_by = "none") =>
               conflict_set = {} /\ ~Evaluate(TheUniverse)

(* C17: under every monotone oracle find_conflicts_additive does not      *)
(* raise, and IMCS leaves its loop through `if next_element is None` only *)
(* with an empty accumulated conflict set, in a first iteration on a pool *)
(* that is empty or does not fail.                                         *)
C17_NeverEmptyHanded ==
    Monotone =>
        /\ alg = "additive" => pc # "raised"
        /\ (IsIMCS /\ exit_by = "none") =>
               /\ conflict_set = {}
               /\ all_mods = <<>> \/ ~Evaluate(TheUniverse)

\* additive has returned two culprits found by two single-fault steps, or
\* IMCS has left through the none branch after searching a pool
C17_Witness ==
    /\ Monotone
    /\ \/ Returned("additive") /\ Cardinality(found) = 2
       \/ Returned("smart") /\ exit_by = "none" /\ test_count >= 2

\* the invocations of _quickxplain_recursive in find_conflicts_qxp, and its
\* returns from base case 2, in order
QxpTrace == Range(DirectQxp.t.trace)

(* C18: when the oracle is monotone and fails on the full universe, every *)
(* invocation _quickxplain_recursive(background, candidates) of a         *)
(* find_conflicts_qxp run has background with candidates failing, and an  *)
(* invocation on a single candidate returns it only with a good           *)
(* background that fails with the candidate added.                         *)
C18_CallInvariant ==
    (Returned("qxp") /\ Monotone /\ Evaluate(TheUniverse)) =>
        /\ calls = DirectQxp.t.calls
        /\ \A i \in QxpTrace :
               /\ Evaluate(i.background \cup i.candidates)
               /\ i.at = "base" =>
                      /\ ~Evaluate(i.background)
                      /\ Evaluate(i.background \cup i.candidates)

\* a run whose refine pass got a non-empty filter result in its background
\* and whose single-candidate base case returned its candidate
C18_Witness ==
    /\ Returned("qxp") /\ Monotone /\ Evaluate(TheUniverse)
    /\ Cardinality(found) = 2
    /\ \E i \in QxpTrace : i.at = "base" /\ i.background # {}
    /\ \E i \in QxpTrace :
           /\ i.at = "call" /\ Cardinality(i.candidates) >= 2
           /\ i.background # {} /\ ~Evaluate(i.background)

(* C19: for every monotone oracle that is good on the empty set, when     *)
(* find_all_conflict_sets_enumerator has returned, by either of its two   *)
(* breaks, the oracle is good on the universe without the components of   *)
(* the returned conflict sets.                                             *)
C19_ResidualClean ==
    (Returned("enum") /\ Monotone /\ ~Evaluate({})) =>
        /\ exit_by \in {"empty", "clean"}
        /\ ~Evaluate(TheUniverse \ UNION Range(found_sets))

\* the enumerator has left by the clean-pool test after its second set,
\* with components left in the pool
C19_Witness ==
    /\ Returned("enum") /\ Monotone /\ ~Evaluate({})
    /\ exit_by = "clean"
    /\ Len(found_sets) = 2
    /\ TheUniverse \ UNION Range(found_sets) # {}

\* the plain helper on the arguments of the last helper call
DirectFindOne == _find_one_culprit_recursive(NewOracle, conflict_set, candidates)

\* the first i calls of log are the first j calls of plain with only
\* queries dropped that repeat an earlier query of plain
RECURSIVE OnlyRepeatsRemoved(_, _, _, _)
OnlyRepeatsRemoved(log, i, plain, j) ==
    IF j = 0 THEN i = 0
    ELSE IF i > 0 /\ log[i] = plain[j]
                  /\ OnlyRepeatsRemoved(log, i - 1, plain, j - 1)
    THEN TRUE
    ELSE /\ \E k \in 1..(j - 1) : plain[k] = plain[j]
         /\ OnlyRepeatsRemoved(log, i, plain, j - 1)

(* C20: under every deterministic oracle, for every background and every  *)
(* pool in sorted order, _find_next_conflict_element_optimized returns    *)
(* what _find_one_culprit_recursive returns, and its oracle calls are the *)
(* plain helper's calls, in order, without the repeated queries of an     *)
(* already-tested subset, so never more.                                   *)
C20_OptimizedRefinesPlain ==
    (alg = "find_next" /\ candidates = sorted(Range(candidates))) =>
        /\ culprit = DirectFindOne.ret
        /\ OnlyRepeatsRemoved(calls, Len(calls), DirectFindOne.t.calls,
                              Len(DirectFindOne.t.calls))
        /\ test_count <= DirectFindOne.t.test_count

\* the optimized helper has found a component with fewer calls than the
\* plain one, under an oracle that is not monotone
C20_Witness ==
    /\ alg = "find_next" /\ candidates = sorted(Range(candidates))
    /\ ~Monotone
    /\ culprit # None
    /\ test_count < DirectFindOne.t.test_count

====
